---- MODULE Spec2Model ----
(***************************************************************************)
(* A model of the caching proxy of src/index.js: the request handler of    *)
(* the HTTP server (path validation, method dispatch, the read-through GET,*)
(* PUT and DELETE), the cache directory it reads and writes, and the       *)
(* upstream fetch.  Every action is one stretch of the handler between two *)
(* suspension points (await): the completion of the pending I/O operation  *)
(* together with the synchronous code that runs after it.                  *)
(***************************************************************************)
EXTENDS Naturals, Sequences, FiniteSets, TLC

(***************************************************************************)
(* Bounds and input sets.                                                  *)
(***************************************************************************)
\* longest blob (request body, upstream image, file content), in bytes
MaxBlobLen == 1

Byte == {0, 1}

RECURSIVE SeqsUpTo(_, _)
SeqsUpTo(S, n) ==
  IF n = 0 THEN {<<>>}
  ELSE LET shorter == SeqsUpTo(S, n - 1)
       IN  shorter \cup {Append(s, x) : s \in {t \in shorter : Len(t) = n - 1}, x \in S}

Blobs == SeqsUpTo(Byte, MaxBlobLen)

\* the handler invocations that can be in flight at the same time
Reqs == {"r1", "r2"}

\* request lines: methods as the HTTP parser delivers them
Methods == {"GET", "PUT", "DELETE", "POST"}

\* request targets (req.url), as sequences of characters
Targets ==
  { <<"/", "2", "0", "0">>,
    <<"/", "4", "0", "4", "/">>,
    <<"/">>,
    <<"/", "2", "0">>,
    <<"/", "2", "0", "x">>,
    <<"/", "2", "0", "0", "0">>,
    <<"/", "2", "0", "0", "/", "4", "0", "4">>,
    <<"/", "/">>,
    <<"/", "/", "2", "0", "0">>,
    <<"/", "2", "0", "0", "/", ".">>,
    <<"/", "x", "y", "z">> }

\* the request targets of the runs that keep the history fields
WatchedTargets ==
  { <<"/", "2", "0", "0">>,
    <<"/", "4", "0", "4", "/">>,
    <<"/">> }

\* Host headers: absent (empty), well-formed, and one with a forbidden character
HostHeaders == { <<>>, <<"h">>, <<"h", " ", "h">> }

\* the --host option the server was started with
host == <<"l">>

\* what the client sends as the body of a request: a blob, or a stream that
\* breaks before its end
Aborted == <<2>>
Bodies == Blobs \cup {Aborted}

(***************************************************************************)
(* Strings.                                                                *)
(***************************************************************************)
Digit == {"0", "1", "2", "3", "4", "5", "6", "7", "8", "9"}

\* String.prototype.split(sep) for a one-character separator
RECURSIVE Split(_, _)
Split(s, sep) ==
  IF \A i \in 1..Len(s) : s[i] # sep THEN <<s>>
  ELSE LET i == CHOOSE j \in 1..Len(s) : s[j] = sep /\ \A m \in 1..(j - 1) : s[m] # sep
       IN  <<SubSeq(s, 1, i - 1)>> \o Split(SubSeq(s, i + 1, Len(s)), sep)

\* Array.prototype.filter(Boolean) on an array of strings: drops the empty ones
FilterBoolean(parts) == SelectSeq(parts, LAMBDA p : p # <<>>)

\* a faulty check: any three characters pass
ThreeChars(code) == Len(code) = 3

\* /^\d{3}$/.test(code)
ThreeDigits(code) == Len(code) = 3 /\ \A i \in 1..3 : code[i] \in Digit

\* String.prototype.toUpperCase on a method name
toUpperCase(m) ==
  CASE m = "get" -> "GET"
    [] m = "put" -> "PUT"
    [] m = "delete" -> "DELETE"
    [] m = "post" -> "POST"
    [] OTHER -> m

(***************************************************************************)
(* new URL(req.url, `http://${req.headers.host || host}`).pathname, for a  *)
(* request target that starts with "/" (origin form).                      *)
(***************************************************************************)
ForbiddenHostChar == {" ", "/", "?", "#"}

\* the host of a special-scheme URL must be non-empty and free of forbidden
\* code points
ValidHost(h) == h # <<>> /\ \A i \in 1..Len(h) : h[i] \notin ForbiddenHostChar

\* the part of s before the first "?" or "#"
BeforeQuery(s) ==
  IF \A i \in 1..Len(s) : s[i] \notin {"?", "#"} THEN s
  ELSE LET i == CHOOSE j \in 1..Len(s) :
                  s[j] \in {"?", "#"} /\ \A m \in 1..(j - 1) : s[m] \notin {"?", "#"}
       IN  SubSeq(s, 1, i - 1)

\* s without its leading slashes
RECURSIVE StripSlashes(_)
StripSlashes(s) ==
  IF s # <<>> /\ s[1] = "/" THEN StripSlashes(Tail(s)) ELSE s

\* the path state of the URL parser: "." segments are dropped, ".." removes the
\* segment before it, and either one at the end leaves an empty last segment
RECURSIVE DotSegments(_, _)
DotSegments(segs, acc) ==
  IF segs = <<>> THEN acc
  ELSE LET s == Head(segs)
           last == Len(segs) = 1
           popped == IF acc = <<>> THEN acc ELSE SubSeq(acc, 1, Len(acc) - 1)
       IN  CASE s = <<".">> ->
                  DotSegments(Tail(segs), IF last THEN Append(acc, <<>>) ELSE acc)
             [] s = <<".", ".">> ->
                  DotSegments(Tail(segs), IF last THEN Append(popped, <<>>) ELSE popped)
             [] OTHER -> DotSegments(Tail(segs), Append(acc, s))

RECURSIVE Join(_)
Join(segs) == IF segs = <<>> THEN <<>> ELSE <<"/">> \o Head(segs) \o Join(Tail(segs))

\* the normalised path of a path that starts with "/"
NormalPath(p) == Join(DotSegments(Split(Tail(p), "/"), <<>>))

\* [ok |-> FALSE] when the constructor throws, else the pathname
URLPathname(target, hostHeader) ==
  LET base == IF hostHeader # <<>> THEN hostHeader ELSE host
      t == BeforeQuery(target)
  IN  IF ~ValidHost(base) THEN [ok |-> FALSE, pathname |-> <<>>]
      ELSE IF Len(t) >= 2 /\ t[1] = "/" /\ t[2] = "/"
           THEN \* scheme-relative: the text after the slashes is an authority
                LET rest == StripSlashes(t)
                    auth == Head(Split(rest, "/"))
                    path == SubSeq(rest, Len(auth) + 1, Len(rest))
                IN  IF ~ValidHost(auth) THEN [ok |-> FALSE, pathname |-> <<>>]
                    ELSE [ok |-> TRUE,
                          pathname |-> IF path = <<>> THEN <<"/">> ELSE NormalPath(path)]
           ELSE [ok |-> TRUE, pathname |-> NormalPath(t)]

(***************************************************************************)
(* The cache directory.                                                    *)
(***************************************************************************)
\* a faulty mapping: every code has the same file
cacheFilePathShared(code) == <<"c", "/", ".", "j", "p", "g">>

\* path.join(cacheDir, `${code}.jpg`)
cacheFilePath(code) == <<"c", "/">> \o code \o <<".", "j", "p", "g">>

\* the codes the request targets above can name
Codes == { <<"2", "0", "0">>, <<"4", "0", "4">> }

FilePaths == {cacheFilePath(c) : c \in Codes}

NoFile == [exists |-> FALSE, data |-> <<>>]
File(b) == [exists |-> TRUE, data |-> b]

\* a write of data at offset 0 of a file that holds old
Overlay(data, old) == data \o SubSeq(old, Len(data) + 1, Len(old))

(***************************************************************************)
(* State.                                                                  *)
(***************************************************************************)
VARIABLES
  files,   \* the cache directory: file path -> [exists, data]
  h,       \* the handler invocations: slot -> its request, locals and response
  watch    \* whether the history fields of h are kept (never changes)

vars == <<files, h, watch>>

\* a slot with no request in it
Idle ==
  [pc |-> "idle", method |-> "", url |-> <<>>, code |-> <<>>,
   body |-> <<>>, bodyBuffer |-> <<>>, fetched |-> <<>>, fd |-> "none",
   status |-> 0, ctype |-> "", text |-> "", data |-> <<>>,
   \* the number of responses written (res.writeHead and res.end) for the request
   sent |-> 0,
   \* history: the I/O operations of the request and their outcomes
   log |-> <<>>,
   \* history: the methods of the other requests that changed the file of this
   \* request since this request opened or removed it or, if it did neither,
   \* since it was answered
   raced |-> {},
   \* history: a PUT of the same code was answered 201 after this GET missed
   sawPut |-> FALSE,
   \* history: the answered request of the same code this one arrived after
   after |-> "",
   \* history: the answered request whose change of the file was the last one
   \* when this request read or removed the file
   found |-> ""]

\* res.writeHead(status, {'Content-Type': 'text/plain'}); res.end(text)
RespondText(q, status, text) ==
  [q EXCEPT !.pc = "done", !.status = status, !.ctype = "text/plain", !.text = text,
            !.sent = @ + 1]

\* res.writeHead(200, {'Content-Type': 'image/jpeg', 'Content-Length': ...});
\* res.end(data)
RespondImage(q, data) ==
  [q EXCEPT !.pc = "done", !.status = 200, !.ctype = "image/jpeg", !.data = data,
            !.sent = @ + 1]

\* a faulty catch: the exception is logged and nothing is answered
RespondUnexpectedSilent(q) == [q EXCEPT !.pc = "done"]

\* the outer catch: the exception is logged and answered 500
RespondUnexpected(q) == RespondText(q, 500, "Internal Server Error")

Logged(q, event) == [q EXCEPT !.log = Append(@, event)]

Has(q, event) == \E i \in 1..Len(q.log) : q.log[i] = event

\* the request body as the stream delivers it, one chunk per byte
RECURSIVE Chunks(_)
Chunks(b) == IF b = <<>> THEN <<>> ELSE <<<<Head(b)>>>> \o Chunks(Tail(b))

\* Buffer.concat(chunks)
RECURSIVE BufferConcat(_)
BufferConcat(chunks) ==
  IF chunks = <<>> THEN <<>> ELSE Head(chunks) \o BufferConcat(Tail(chunks))

Files == [FilePaths -> {NoFile} \cup {File(b) : b \in Blobs}]

Init ==
  /\ files \in Files
  /\ h = [r \in Reqs |-> Idle]
  /\ watch = FALSE

\* the same program, with the history fields kept
InitWatched ==
  /\ files \in Files
  /\ h = [r \in Reqs |-> Idle]
  /\ watch = TRUE

(***************************************************************************)
(* History bookkeeping.                                                    *)
(***************************************************************************)
OnFile(q, p) == q.code # <<>> /\ cacheFilePath(q.code) = p

\* request r changed file p: the requests that hold p open, and the answered
\* ones, have been raced by it
Raced(hh, r, p) ==
  IF ~watch THEN hh
  ELSE [s \in Reqs |->
          IF s # r /\ hh[s].pc \in {"write", "done"} /\ OnFile(hh[s], p)
          THEN [hh[s] EXCEPT !.raced = @ \cup {hh[r].method}] ELSE hh[s]]

\* a PUT of file p was answered 201: the GETs that missed on p have seen it
SawPut(hh, r, p) ==
  IF ~watch \/ hh[r].method # "PUT" THEN hh
  ELSE [s \in Reqs |->
          IF s # r /\ hh[s].method = "GET" /\ hh[s].pc \in {"fetch", "open", "write"}
             /\ OnFile(hh[s], p)
          THEN [hh[s] EXCEPT !.sawPut = TRUE] ELSE hh[s]]

\* the answered request of file p, if there is one in a slot other than r
Answered(r, p) ==
  IF \E s \in Reqs : s # r /\ h[s].pc = "done" /\ OnFile(h[s], p)
  THEN CHOOSE s \in Reqs : s # r /\ h[s].pc = "done" /\ OnFile(h[s], p)
  ELSE ""

\* the answered request that changed file p last, unless another request has
\* changed the file since that change began
Intact(r, p) ==
  LET s == Answered(r, p)
  IN  IF s # "" /\ h[s].raced = {}
         /\ (Has(h[s], "open:ok") \/ Has(h[s], "unlink:ok"))
      THEN s ELSE ""

Arrived(q, r) ==
  IF watch /\ q.code # <<>>
  THEN [q EXCEPT !.after = Answered(r, cacheFilePath(q.code))] ELSE q

Found(q, r) ==
  IF watch THEN [q EXCEPT !.found = Intact(r, cacheFilePath(q.code))] ELSE q

\* the request of slot r leaves: nothing refers to it any more
Forgotten(hh, r) ==
  [s \in Reqs |->
     [hh[s] EXCEPT !.after = IF @ = r THEN "" ELSE @,
                   !.found = IF @ = r THEN "" ELSE @]]

(***************************************************************************)
(* The handler, from its call to its first suspension point: the path is   *)
(* parsed and validated and the method dispatched.                         *)
(***************************************************************************)
\* a faulty dispatch: a method it does not know is handled as a PUT
DispatchUnknownAsPut(q, method) ==
  CASE method = "GET" -> [q EXCEPT !.pc = "readFile"]
    [] method = "DELETE" -> [q EXCEPT !.pc = "unlink"]
    [] OTHER -> [q EXCEPT !.pc = "body"]

\* the dispatch on the method, for a request whose path gave a code
Dispatch(q, method) ==
  CASE method = "GET" -> [q EXCEPT !.pc = "readFile"]
    [] method = "PUT" -> [q EXCEPT !.pc = "body"]
    [] method = "DELETE" -> [q EXCEPT !.pc = "unlink"]
    [] OTHER -> RespondText(q, 405, "Method Not Allowed")

Route(q, hostHeader) ==
  LET url == URLPathname(q.url, hostHeader)
      parts == FilterBoolean(Split(url.pathname, "/"))
      code == parts[1]
  IN  IF ~url.ok THEN RespondUnexpected(q)
      ELSE IF Len(parts) # 1
      THEN RespondText(q, 400, "Bad request. Expected path like /200")
      ELSE IF ~ThreeDigits(code)
      THEN RespondText(q, 400,
             "Bad request. Expected three-digit HTTP status code in path, e.g. /200")
      ELSE Dispatch([q EXCEPT !.code = code], toUpperCase(q.method))

\* a request arrives and the server calls the handler
Request(r) ==
  /\ h[r].pc = "idle"
  /\ \E m \in Methods, u \in (IF watch THEN WatchedTargets ELSE Targets),
        hh \in HostHeaders :
       h' = [h EXCEPT ![r] =
               Arrived(Route([Idle EXCEPT !.method = m, !.url = u], hh), r)]
  /\ UNCHANGED <<files, watch>>

(***************************************************************************)
(* GET: readFromCache completes.                                           *)
(***************************************************************************)
\* a faulty hit: the response carries no content
ReadSucceededEmpty(q, data) == RespondImage(q, <<>>)

\* readFromCache returned the content of the file
ReadSucceeded(q, data) == RespondImage(q, data)

\* a faulty GET: every read error is handled as a miss
ReadFailedAsMiss(q, enoent) == [q EXCEPT !.pc = "fetch"]

\* readFromCache threw: ENOENT makes the handler call fetchFromHttpCat, any
\* other error is answered 500
ReadFailed(q, enoent) ==
  IF ~enoent THEN RespondText(q, 500, "Internal Server Error")
  ELSE [q EXCEPT !.pc = "fetch"]

ReadDone(r) ==
  LET f == files[cacheFilePath(h[r].code)]
      q == Found(h[r], r)
  IN  /\ q.pc = "readFile"
      /\ \/ /\ f.exists
            /\ h' = [h EXCEPT ![r] = ReadSucceeded(Logged(q, "read:ok"), f.data)]
         \/ /\ ~f.exists
            /\ h' = [h EXCEPT ![r] = ReadFailed(Logged(q, "read:ENOENT"), TRUE)]
         \/ h' = [h EXCEPT ![r] = ReadFailed(Logged(q, "read:error"), FALSE)]
      /\ UNCHANGED <<files, watch>>

(***************************************************************************)
(* GET: fetchFromHttpCat completes, with an image or with null.            *)
(***************************************************************************)
Null == [null |-> TRUE, data |-> <<>>]
Image(c) == [null |-> FALSE, data |-> c]

\* a faulty miss: an unavailable upstream is tried a second time
FetchedRetry(q, fetched) ==
  IF fetched.null
  THEN IF Len(q.log) < 3 THEN [q EXCEPT !.pc = "fetch"]
       ELSE RespondText(q, 404, "Not Found")
  ELSE [q EXCEPT !.fetched = fetched.data, !.pc = "open"]

\* a faulty miss: the result of the fetch is cached without the null check
FetchedUnchecked(q, fetched) ==
  [q EXCEPT !.fetched = fetched.data, !.pc = "open"]

\* null is answered 404; an image is kept and writeToCache called with it
Fetched(q, fetched) ==
  IF fetched.null THEN RespondText(q, 404, "Not Found")
  ELSE [q EXCEPT !.fetched = fetched.data, !.pc = "open"]

FetchDone(r) ==
  LET q == h[r]
  IN  /\ q.pc = "fetch"
      /\ \/ \E c \in Blobs : h' = [h EXCEPT ![r] = Fetched(Logged(q, "fetch:ok"), Image(c))]
         \/ h' = [h EXCEPT ![r] = Fetched(Logged(q, "fetch:null"), Null)]
      /\ UNCHANGED <<files, watch>>

(***************************************************************************)
(* writeToCache, called by GET with the fetched image and by PUT with the  *)
(* body.  fsPromises.writeFile opens the file (creating or truncating it), *)
(* writes the buffer at its start and closes it; the two steps are separate*)
(* operations, and other requests run between them.                        *)
(***************************************************************************)
\* a faulty GET: a failed cache write fails the request
WriteFailedFatal(q) == RespondText(q, 500, "Internal Server Error")

\* a faulty PUT: a failed cache write is answered as a successful one
WriteFailedIgnored(q) ==
  IF q.method = "GET" THEN RespondImage(q, q.fetched)
  ELSE RespondText(q, 201, "Created")

\* what the handler does when writeToCache throws
WriteFailed(q) ==
  IF q.method = "GET" THEN RespondImage(q, q.fetched)
  ELSE RespondText(q, 500, "Internal Server Error")

\* what the handler does when writeToCache returns
WriteSucceeded(q) ==
  IF q.method = "GET" THEN RespondImage(q, q.fetched)
  ELSE RespondText(q, 201, "Created")

\* a faulty population: the GET caches the (empty) body of its request
WriteBufferBody(q) == q.bodyBuffer

\* the buffer writeToCache was given
WriteBuffer(q) == IF q.method = "GET" THEN q.fetched ELSE q.bodyBuffer

\* a faulty open: the file is removed, to be created by the write
TruncatedRemoved(fs, p) == [fs EXCEPT ![p] = NoFile]

\* open(p, 'w'): the file exists and is empty
Truncated(fs, p) == [fs EXCEPT ![p] = File(<<>>)]

\* a faulty write: the bytes are dropped
WrittenNothing(fs, p, data) == fs

\* the buffer is written at the start of the file
Written(fs, p, data) == [fs EXCEPT ![p] = File(Overlay(data, @.data))]

WriteOpen(r) ==
  LET q == h[r]
      p == cacheFilePath(q.code)
  IN  /\ q.pc = "open"
      /\ \/ /\ files' = Truncated(files, p)
            /\ h' = Raced([h EXCEPT ![r] =
                             [Logged(q, "open:ok") EXCEPT
                                !.pc = "write", !.fd = "live", !.raced = {}]],
                          r, p)
         \/ /\ h' = [h EXCEPT ![r] = WriteFailed(Logged(q, "open:error"))]
            /\ UNCHANGED files
      /\ UNCHANGED watch

WriteData(r) ==
  LET q == h[r]
      p == cacheFilePath(q.code)
      answered == [h EXCEPT ![r] = WriteSucceeded([Logged(q, "write:ok") EXCEPT !.fd = "none"])]
  IN  /\ q.pc = "write"
      /\ \/ /\ q.fd = "live"
            /\ files' = Written(files, p, WriteBuffer(q))
            /\ h' = Raced(SawPut(answered, r, p), r, p)
         \/ \* the file was removed after it was opened: the bytes are lost
            /\ q.fd = "orphan"
            /\ h' = SawPut(answered, r, p)
            /\ UNCHANGED files
         \/ /\ h' = [h EXCEPT ![r] =
                       WriteFailed([Logged(q, "write:error") EXCEPT !.fd = "none"])]
            /\ UNCHANGED files
      /\ UNCHANGED watch

(***************************************************************************)
(* PUT: the body has been read to its end, or the stream broke.            *)
(***************************************************************************)
\* a faulty PUT: the body is written without the check for an empty one
BodyReadUnchecked(q, bodyBuffer) ==
  [q EXCEPT !.bodyBuffer = bodyBuffer, !.pc = "open"]

\* an empty body is answered 400, any other is given to writeToCache
BodyRead(q, bodyBuffer) ==
  IF Len(bodyBuffer) = 0 THEN RespondText(q, 400, "Bad Request: empty body")
  ELSE [q EXCEPT !.bodyBuffer = bodyBuffer, !.pc = "open"]

BodyDone(r) ==
  LET q == h[r]
  IN  /\ q.pc = "body"
      /\ \E b \in Bodies :
           LET got == [q EXCEPT !.body = b]
           IN  h' = [h EXCEPT ![r] =
                       IF b = Aborted THEN RespondUnexpected(Logged(got, "body:error"))
                       ELSE BodyRead(Logged(got, "body:ok"), BufferConcat(Chunks(b)))]
      /\ UNCHANGED <<files, watch>>

(***************************************************************************)
(* DELETE: deleteFromCache completes.                                      *)
(***************************************************************************)
\* a faulty delete: the file stays
UnlinkedKept(fs, p) == fs

\* unlink(p)
Unlinked(fs, p) == [fs EXCEPT ![p] = NoFile]

\* the open descriptors of a removed file keep the removed file, not the path
Orphaned(hh, p) ==
  [s \in Reqs |->
     IF hh[s].fd = "live" /\ cacheFilePath(hh[s].code) = p
     THEN [hh[s] EXCEPT !.fd = "orphan"] ELSE hh[s]]

\* deleteFromCache returned
DeleteSucceeded(q) == RespondText(q, 200, "Deleted")

\* a faulty DELETE: an absent entry is answered as a deleted one
DeleteFailedAbsentOk(q, enoent) ==
  IF enoent THEN RespondText(q, 200, "Deleted")
  ELSE RespondText(q, 500, "Internal Server Error")

\* deleteFromCache threw: ENOENT is answered 404, any other error 500
DeleteFailed(q, enoent) ==
  IF enoent THEN RespondText(q, 404, "Not Found")
  ELSE RespondText(q, 500, "Internal Server Error")

UnlinkDone(r) ==
  LET q == Found(h[r], r)
      p == cacheFilePath(q.code)
  IN  /\ q.pc = "unlink"
      /\ \/ /\ files[p].exists
            /\ files' = Unlinked(files, p)
            /\ h' = Raced(Orphaned([h EXCEPT ![r] = DeleteSucceeded(Logged(q, "unlink:ok"))],
                                   p), r, p)
         \/ /\ ~files[p].exists
            /\ h' = [h EXCEPT ![r] = DeleteFailed(Logged(q, "unlink:ENOENT"), TRUE)]
            /\ UNCHANGED files
         \/ /\ h' = [h EXCEPT ![r] = DeleteFailed(Logged(q, "unlink:error"), FALSE)]
            /\ UNCHANGED files
      /\ UNCHANGED watch

(***************************************************************************)
(* The response has been sent; the slot is free for the next request.      *)
(***************************************************************************)
Finish(r) ==
  /\ h[r].pc = "done"
  /\ h' = Forgotten([h EXCEPT ![r] = Idle], r)
  /\ UNCHANGED <<files, watch>>

Next ==
  \E r \in Reqs :
    \/ Request(r)
    \/ ReadDone(r)
    \/ FetchDone(r)
    \/ WriteOpen(r)
    \/ WriteData(r)
    \/ BodyDone(r)
    \/ UnlinkDone(r)
    \/ Finish(r)

Spec == Init /\ [][Next]_vars

SpecWatched == InitWatched /\ [][Next]_vars

\* the pending I/O operation of the request of slot r completes, with success
\* or failure: the cache read, the upstream fetch, a step of the cache write,
\* the reading of the body or the delete (a request waits for one at a time)
Completes(r) ==
  \/ ReadDone(r)
  \/ FetchDone(r)
  \/ WriteOpen(r)
  \/ WriteData(r)
  \/ BodyDone(r)
  \/ UnlinkDone(r)

SpecLive == Init /\ [][Next]_vars /\ \A r \in Reqs : WF_vars(Completes(r))

(***************************************************************************)
(* Properties.                                                             *)
(***************************************************************************)
\* the non-empty segments of the path of a request target (the target up to
\* its query string, split at "/")
RawSegments(u) == FilterBoolean(Split(BeforeQuery(u), "/"))

\* the path has no segment or several, or its one segment is not three digits
BadPath(u) == Len(RawSegments(u)) # 1 \/ ~ThreeDigits(RawSegments(u)[1])

Path(r) == cacheFilePath(h[r].code)

Done(r) == h[r].pc = "done"

\* slot r takes a request in this step
Arrives(r) == h[r].pc = "idle" /\ h'[r].pc # "idle"

\* C1: a request whose path has a number of non-empty segments other than 1,
\* or whose single segment is not exactly three digits, is answered 400
\* whatever its method, and handling it performs no cache read, write or
\* delete and no upstream fetch, so that the cache is unchanged.
C1_BadPathRejected ==
  [][\A r \in Reqs :
       Arrives(r) /\ BadPath(h'[r].url)
         => /\ h'[r].pc = "done"
            /\ h'[r].status = 400
            /\ h'[r].log = <<>>
            /\ files' = files]_vars

\* C4: a GET whose cache entry exists and is readable is answered 200 with the
\* content the entry holds at the moment of the read, fetches nothing from
\* upstream and leaves the cache unchanged.
C4_HitServedFromCache ==
  [][\A r \in Reqs :
       h[r].pc = "readFile" /\ h'[r].pc # "readFile"
       /\ files[Path(r)].exists /\ ~Has(h'[r], "read:error")
         => /\ h'[r].pc = "done"
            /\ h'[r].status = 200
            /\ h'[r].ctype = "image/jpeg"
            /\ h'[r].data = files[Path(r)].data
            /\ h'[r].log = <<"read:ok">>
            /\ files' = files]_vars

\* a GET was served a non-empty entry from the cache
C4_Witness ==
  \E r \in Reqs :
    /\ Done(r) /\ h[r].method = "GET" /\ h[r].log = <<"read:ok">>
    /\ h[r].status = 200 /\ h[r].data # <<>> /\ files[Path(r)] = File(h[r].data)

\* C5: a GET of a valid code with no cache entry, whose upstream fetch comes
\* back unavailable, is answered 404, writes nothing to the cache and leaves
\* the cache as it is.
C5_MissUnavailable404 ==
  [][\A r \in Reqs :
       h[r].pc = "fetch" /\ Has(h'[r], "fetch:null")
         => /\ h'[r].pc = "done"
            /\ h'[r].status = 404
            /\ h'[r].text = "Not Found"
            /\ h'[r].log = <<"read:ENOENT", "fetch:null">>
            /\ ThreeDigits(h'[r].code)
            /\ files' = files]_vars

\* a GET missed, the upstream was unavailable, and the entry is still absent
C5_Witness ==
  \E r \in Reqs :
    /\ Done(r) /\ h[r].method = "GET" /\ Has(h[r], "fetch:null")
    /\ h[r].status = 404 /\ ~files[Path(r)].exists

\* C8: a PUT of a valid code with an empty body is answered 400 and leaves the
\* cache unchanged: it opens, writes and removes nothing.
C8_EmptyPut400 ==
  [][\A r \in Reqs :
       h[r].pc = "body" /\ h'[r].pc # "body" /\ h'[r].body = <<>>
         => /\ h'[r].pc = "done"
            /\ h'[r].status = 400
            /\ h'[r].text = "Bad Request: empty body"
            /\ h'[r].log = <<"body:ok">>
            /\ files' = files]_vars

\* a PUT with an empty body was answered 400 while its entry exists
C8_Witness ==
  \E r \in Reqs :
    /\ Done(r) /\ h[r].method = "PUT" /\ h[r].log = <<"body:ok">> /\ h[r].body = <<>>
    /\ h[r].status = 400 /\ files[Path(r)].exists /\ files[Path(r)].data # <<>>

MissAnswered(r) == Done(r) /\ h[r].method = "GET" /\ Has(h[r], "fetch:ok")

\* r is a PUT whose body arrived whole and non-empty and that has been answered
PutAnswered(r) ==
  Done(r) /\ h[r].method = "PUT" /\ Has(h[r], "body:ok") /\ h[r].body # <<>>

\* r is a DELETE that has been answered 200
DeleteAnswered(r) == Done(r) /\ h[r].method = "DELETE" /\ h[r].status = 200

\* s is an answered GET that arrived after the answer to r
GetAfter(s, r) == Done(s) /\ h[s].method = "GET" /\ h[s].after = r

\* s was served the image from the cache, with no upstream fetch
ServedFromCache(s, image) ==
  h[s].status = 200 /\ h[s].data = image /\ h[s].log = <<"read:ok">>

\* s went the way of a miss: it fetched and was answered with what it fetched,
\* or 404 when the upstream was unavailable
FreshMiss(s) ==
  /\ Has(h[s], "read:ENOENT")
  /\ Done(s) => \/ Has(h[s], "fetch:ok") /\ h[s].status = 200 /\ h[s].data = h[s].fetched
                \/ Has(h[s], "fetch:null") /\ h[s].status = 404

\* C2 as claimed: a GET that misses and fetches C is answered 200 with C, and
\* a GET that arrives after that answer, with no DELETE of the code in between,
\* is answered 200 with C from the cache without an upstream fetch.
C2_AsClaimed ==
  \A r \in Reqs : MissAnswered(r) =>
    /\ h[r].status = 200 /\ h[r].data = h[r].fetched
    /\ \A s \in Reqs : GetAfter(s, r) /\ "DELETE" \notin h[r].raced
                         => ServedFromCache(s, h[r].fetched)

\* C2, amended: a GET that misses and fetches C is answered 200 with C, and if
\* its cache write succeeded and no other request changed the entry from the
\* start of that write on, a later GET of the code whose cache read succeeds
\* is answered 200 with C from the cache without an upstream fetch.
C2_MissThenHit ==
  \A r \in Reqs : MissAnswered(r) =>
    /\ h[r].status = 200 /\ h[r].data = h[r].fetched /\ h[r].ctype = "image/jpeg"
    /\ \A s \in Reqs :
         Has(h[r], "write:ok") /\ h[s].method = "GET" /\ h[s].found = r
         /\ ~Has(h[s], "read:error")
           => ServedFromCache(s, h[r].fetched)

\* a GET missed and cached a non-empty image, and the GET that arrived after
\* its answer was served that image from the cache
C2_Witness ==
  \E r, s \in Reqs :
    /\ MissAnswered(r) /\ Has(h[r], "write:ok") /\ h[r].fetched # <<>>
    /\ GetAfter(s, r) /\ h[s].found = r /\ ServedFromCache(s, h[r].fetched)

\* C3 as claimed: a PUT with a non-empty body B is answered 201, and a GET of
\* the code that arrives after that answer is answered 200 with body B.
C3_AsClaimed ==
  \A r \in Reqs : PutAnswered(r) =>
    /\ h[r].status = 201
    /\ \A s \in Reqs : GetAfter(s, r) => h[s].status = 200 /\ h[s].data = h[r].body

\* C3, amended: a PUT with a non-empty body B is answered 201 when its cache
\* write succeeds and 500 when it fails, and if the write succeeded and no
\* other request changed the entry from the start of that write on, a later
\* GET of the code whose cache read succeeds is answered 200 with a body
\* byte-identical to B.
C3_PutThenGet ==
  \A r \in Reqs : PutAnswered(r) =>
    /\ h[r].status = IF Has(h[r], "write:ok") THEN 201 ELSE 500
    /\ \A s \in Reqs :
         Has(h[r], "write:ok") /\ h[s].method = "GET" /\ h[s].found = r
         /\ ~Has(h[s], "read:error")
           => ServedFromCache(s, h[r].body)

\* a PUT was answered 201 and the GET that arrived after that answer was
\* served the body of the PUT
C3_Witness ==
  \E r, s \in Reqs :
    /\ PutAnswered(r) /\ h[r].status = 201
    /\ GetAfter(s, r) /\ h[s].found = r /\ ServedFromCache(s, h[r].body)

\* the DELETE of slot r completes in this step
Unlinks(r) == h[r].pc = "unlink" /\ h'[r].pc = "done"

\* C6 as claimed: a DELETE whose entry exists is answered 200 and removes the
\* entry, and a GET of the code that arrives after that answer behaves as a
\* fresh miss: it fetches again or is answered 404, and is never served from
\* the cache.
C6_AsClaimed ==
  [][/\ \A r \in Reqs : Unlinks(r) /\ files[Path(r)].exists
                          => h'[r].status = 200 /\ ~files'[Path(r)].exists
     /\ \A r, s \in Reqs : (DeleteAnswered(r) /\ GetAfter(s, r) => FreshMiss(s))']_vars

\* C6, amended: a DELETE whose entry exists is answered 200 and removes the
\* entry when the delete succeeds, and 500 with the entry kept when it fails;
\* after a DELETE answered 200, and with no other request changing the entry
\* since, a GET of the code whose cache read does not fail behaves as a fresh
\* miss: it fetches from upstream and is answered 200 with what it fetched, or
\* 404 when the upstream is unavailable, and is never served from the cache.
C6_DeleteThenMiss ==
  [][/\ \A r \in Reqs : Unlinks(r) /\ files[Path(r)].exists
                          => \/ /\ Has(h'[r], "unlink:ok") /\ h'[r].status = 200
                                /\ ~files'[Path(r)].exists
                             \/ /\ Has(h'[r], "unlink:error") /\ h'[r].status = 500
                                /\ files' = files
     /\ \A r, s \in Reqs :
          (DeleteAnswered(r) /\ h[s].method = "GET" /\ h[s].found = r
           /\ ~Has(h[s], "read:error") => FreshMiss(s))']_vars

\* a DELETE was answered 200, and the GET that arrived after that answer
\* missed, fetched again and was answered with the new image
C6_Witness ==
  \E r, s \in Reqs :
    /\ DeleteAnswered(r) /\ GetAfter(s, r) /\ h[s].found = r
    /\ Has(h[s], "fetch:ok") /\ h[s].status = 200 /\ h[s].data # <<>>

\* C7 as claimed: a DELETE of a code with no cache entry is answered 404 and
\* leaves the cache unchanged; so a DELETE that arrives after a DELETE of the
\* code answered 200 is answered 404.
C7_AsClaimed ==
  [][/\ \A r \in Reqs : Unlinks(r) /\ ~files[Path(r)].exists
                          => h'[r].status = 404 /\ files' = files
     /\ \A r, s \in Reqs :
          (DeleteAnswered(r) /\ Done(s) /\ h[s].method = "DELETE" /\ h[s].after = r
           => h[s].status = 404)']_vars

\* C7, amended: a DELETE of a code with no cache entry is never answered 200
\* and leaves the cache unchanged: it is answered 404 when the delete reports
\* the entry absent and 500 when the delete fails otherwise; so a DELETE that
\* finds the entry as a DELETE answered 200 left it is answered 404 or 500,
\* not 200.
C7_DeleteAbsent ==
  [][/\ \A r \in Reqs : Unlinks(r) /\ ~files[Path(r)].exists
                          => /\ files' = files
                             /\ \/ Has(h'[r], "unlink:ENOENT") /\ h'[r].status = 404
                                \/ Has(h'[r], "unlink:error") /\ h'[r].status = 500
     /\ \A r, s \in Reqs :
          (DeleteAnswered(r) /\ Done(s) /\ h[s].method = "DELETE" /\ h[s].found = r
           => \/ Has(h[s], "unlink:ENOENT") /\ h[s].status = 404
              \/ Has(h[s], "unlink:error") /\ h[s].status = 500)']_vars

\* a DELETE was answered 200 and the DELETE that arrived after it 404
C7_Witness ==
  \E r, s \in Reqs :
    /\ DeleteAnswered(r) /\ Done(s) /\ h[s].method = "DELETE"
    /\ h[s].after = r /\ h[s].found = r /\ h[s].status = 404

\* C10: when a PUT and the population write of a GET of the same code
\* interleave, the write that lands last determines the stored content: when
\* the GET has seen NotFound, the PUT has then been answered 201 and the
\* write of the GET lands after it, the entry holds the upstream content.
C10_LastWriteWins ==
  [][\A r \in Reqs :
       h[r].method = "GET" /\ h[r].pc = "write" /\ Has(h'[r], "write:ok")
       /\ h[r].sawPut /\ h[r].raced \subseteq {"PUT"}
         => files'[Path(r)] = File(h[r].fetched)]_vars

\* the execution of C10: the GET missed, the PUT was answered 201, the write
\* of the GET landed after it, and the entry holds the upstream content, not
\* the body of the PUT
C10_Reached ==
  \E r, s \in Reqs :
    /\ MissAnswered(r) /\ Has(h[r], "write:ok") /\ h[r].sawPut
    /\ PutAnswered(s) /\ h[s].status = 201 /\ h[s].code = h[r].code
    /\ h[s].raced = {"GET"}
    /\ files[Path(r)] = File(h[r].fetched) /\ h[r].fetched # h[s].body

\* s is a GET of the code of r that missed, fetched and wrote the entry
Populated(s, r) ==
  /\ h[s].method = "GET" /\ h[s].code = h[r].code
  /\ Has(h[s], "fetch:ok") /\ Has(h[s], "write:ok")

\* C11: two concurrent GETs of one key with no entry can both miss, both fetch
\* and both write the entry; both are then answered with what they fetched,
\* and when the second of the two writes lands, with no request other than the
\* two GETs touching the entry, the entry holds the content written last.
C11_BothFetchLastWins ==
  [][\A r, s \in Reqs :
       r # s /\ h[r].method = "GET" /\ h[r].pc = "write" /\ Has(h'[r], "write:ok")
       /\ Done(s) /\ Populated(s, r) /\ h[s].after # r /\ h[r].after # s
       /\ h[r].raced \subseteq {"GET"} /\ h[s].raced \subseteq {"GET"}
         => /\ h'[r].status = 200 /\ h'[r].data = h[r].fetched
            /\ h[s].status = 200 /\ h[s].data = h[s].fetched
            /\ files'[Path(r)] = File(h[r].fetched)]_vars

\* the execution of C11: two GETs of one key were in flight together, both
\* missed and fetched, both wrote, both were answered with what they fetched,
\* and the entry holds what one of them fetched and the other did not
C11_Reached ==
  \E r, s \in Reqs :
    /\ r # s /\ MissAnswered(r) /\ MissAnswered(s) /\ Populated(s, r) /\ Populated(r, s)
    /\ h[s].after # r /\ h[r].after # s
    /\ h[r].data = h[r].fetched /\ h[s].data = h[s].fetched
    /\ h[r].fetched # h[s].fetched /\ files[Path(r)] = File(h[r].fetched)

\* the cache write of slot r fails in this step, when it opens or when it writes
WriteFails(r) ==
  /\ h[r].pc \in {"open", "write"}
  /\ Has(h'[r], "open:error") \/ Has(h'[r], "write:error")

\* C12: a GET that missed and fetched content C, and whose cache write fails,
\* is answered 200 with body C: the failure of the write is not turned into an
\* error response.
C12_WriteFailureStill200 ==
  [][\A r \in Reqs :
       h[r].method = "GET" /\ WriteFails(r)
         => /\ h'[r].pc = "done"
            /\ h'[r].status = 200
            /\ h'[r].ctype = "image/jpeg"
            /\ h'[r].data = h[r].fetched
            /\ Has(h[r], "fetch:ok")]_vars

\* a GET missed, fetched a non-empty image, failed to write it and was
\* answered 200 with it, while the key has no entry
C12_Witness ==
  \E r \in Reqs :
    /\ MissAnswered(r) /\ Has(h[r], "open:error") /\ h[r].fetched # <<>>
    /\ h[r].status = 200 /\ h[r].data = h[r].fetched /\ ~files[Path(r)].exists

\* C13: a GET whose cache read fails with an error other than ENOENT is
\* answered 500; it fetches nothing from upstream and writes nothing to the
\* cache.
C13_ReadError500 ==
  [][\A r \in Reqs :
       h[r].pc = "readFile" /\ Has(h'[r], "read:error")
         => /\ h'[r].pc = "done"
            /\ h'[r].status = 500
            /\ h'[r].text = "Internal Server Error"
            /\ h'[r].log = <<"read:error">>
            /\ files' = files]_vars

\* a GET was answered 500 on a read error, with nothing fetched, whether the
\* entry exists or not
C13_Witness ==
  \E r, s \in Reqs :
    /\ r # s /\ Done(r) /\ Done(s) /\ h[r].method = "GET" /\ h[s].method = "GET"
    /\ h[r].log = <<"read:error">> /\ h[s].log = <<"read:error">>
    /\ h[r].status = 500 /\ h[s].status = 500
    /\ files[Path(r)].exists /\ ~files[Path(s)].exists

\* C14: a PUT with a non-empty body whose cache write fails is answered 500,
\* and a DELETE whose delete fails with an error other than ENOENT is answered
\* 500: neither is answered 201, 200 or 404.
C14_StorageFault500 ==
  [][\A r \in Reqs :
       /\ h[r].method = "PUT" /\ WriteFails(r)
             => /\ h'[r].pc = "done" /\ h'[r].status = 500
                /\ h'[r].text = "Internal Server Error"
                /\ h[r].bodyBuffer # <<>>
       /\ h[r].pc = "unlink" /\ Has(h'[r], "unlink:error")
             => /\ h'[r].pc = "done" /\ h'[r].status = 500
                /\ h'[r].text = "Internal Server Error"
                /\ files' = files]_vars

\* a PUT whose write failed and a DELETE whose delete failed were answered 500
C14_Witness ==
  \E r, s \in Reqs :
    /\ PutAnswered(r) /\ Has(h[r], "write:error") /\ h[r].status = 500
    /\ Done(s) /\ h[s].method = "DELETE" /\ Has(h[s], "unlink:error")
    /\ h[s].status = 500

\* slot r holds a GET of the path /xyz
GetXyz(q) == q.method = "GET" /\ q.url = <<"/", "x", "y", "z">>

\* C15 as claimed: a GET of /xyz, for which the cache holds no entry, is
\* answered 404 when the upstream is unavailable.
C15_AsClaimed ==
  \A r \in Reqs : Done(r) /\ GetXyz(h[r]) => h[r].status = 404

\* C15, amended: a GET of /xyz is rejected when it arrives, with no cache read
\* and no upstream fetch, whatever the cache holds and whether or not the
\* upstream is available: it is answered 400 because xyz is not three digits,
\* or 500 when the URL of the request cannot be constructed; it is never
\* answered 404.
C15_XyzRejected ==
  [][\A r \in Reqs :
       Arrives(r) /\ GetXyz(h'[r])
         => /\ h'[r].pc = "done"
            /\ h'[r].log = <<>>
            /\ h'[r].code = <<>>
            /\ files' = files
            /\ \/ /\ h'[r].status = 400
                  /\ h'[r].text =
                       "Bad request. Expected three-digit HTTP status code in path, e.g. /200"
               \/ /\ h'[r].status = 500
                  /\ h'[r].text = "Internal Server Error"]_vars

\* a GET of /xyz was answered 400 while the cache is empty
C15_Witness ==
  \E r \in Reqs :
    /\ Done(r) /\ GetXyz(h[r]) /\ h[r].status = 400 /\ h[r].log = <<>>
    /\ \A p \in FilePaths : ~files[p].exists

\* the DELETE of slot r for code k succeeds in this step
DeleteSucceeds(r, k) ==
  /\ h[r].method = "DELETE" /\ h[r].code = k /\ h[r].pc = "unlink"
  /\ Has(h'[r], "unlink:ok") /\ h'[r].status = 200

\* C16: an entry that exists keeps existing until a DELETE of its key
\* succeeds: no step of a GET, of a PUT, of a rejected request or of a request
\* for another key removes it.
C16_OnlyDeleteRemoves ==
  [][\A k \in Codes :
       files[cacheFilePath(k)].exists /\ ~files'[cacheFilePath(k)].exists
         => \E r \in Reqs : DeleteSucceeds(r, k)]_vars

\* an entry has been replaced by a PUT and then served to a GET, and exists
C16_Witness ==
  \E r, s \in Reqs :
    /\ PutAnswered(r) /\ h[r].status = 201
    /\ Done(s) /\ h[s].method = "GET" /\ h[s].code = h[r].code
    /\ h[s].log = <<"read:ok">> /\ h[s].data = h[r].body
    /\ files[Path(r)] = File(h[r].body)

\* what request q offers to store under its key: the image its GET fetched
\* after a miss, or the non-empty body of its PUT
Offers(q, data) ==
  \/ q.method = "GET" /\ Has(q, "fetch:ok") /\ data = q.fetched
  \/ q.method = "PUT" /\ q.bodyBuffer # <<>> /\ data = q.bodyBuffer

\* slot r takes a step
Acts(r) == h'[r] # h[r] /\ h[r].pc # "idle"

\* C17: the content stored for a key is always a blob the upstream returned
\* for that key to a GET that missed, or the non-empty body of a PUT of that
\* key: whenever a step gives the entry of key k a content it did not hold,
\* the step is of a request for k and the content is what that request offers.
C17_ContentFromFetchOrPut ==
  [][\A k \in Codes :
       LET p == cacheFilePath(k)
       IN  files'[p].exists /\ files'[p] # files[p]
             => \E r \in Reqs :
                  Acts(r) /\ h[r].code = k /\ Offers(h[r], files'[p].data)]_vars

\* a GET was served an empty entry of key k while a PUT of k with a non-empty
\* body is between the opening of the file and its write
C17_EmptyServed ==
  \E r, s \in Reqs :
    /\ h[r].method = "PUT" /\ h[r].pc = "write" /\ h[r].bodyBuffer # <<>>
    /\ Done(s) /\ h[s].method = "GET" /\ h[s].code = h[r].code
    /\ h[s].log = <<"read:ok">> /\ h[s].status = 200 /\ h[s].data = <<>>

\* the key of the request of slot r that takes the step
KeyOfStep(r) == IF h[r].pc = "idle" THEN h'[r].code ELSE h[r].code

\* C18: the handling of a request for key k changes the entry of k only: in
\* every step of a request, the entry of every other key (its presence and its
\* content) is unchanged.
C18_OtherKeysUnchanged ==
  [][\A r \in Reqs :
       h'[r].pc # h[r].pc
         => \A k \in Codes :
              k # KeyOfStep(r) => files'[cacheFilePath(k)] = files[cacheFilePath(k)]]_vars

\* a PUT and a DELETE of one key have been answered 201 and 200 while the
\* other key holds a non-empty entry
C18_Witness ==
  \E r, s \in Reqs, k \in Codes :
    /\ PutAnswered(r) /\ h[r].status = 201 /\ DeleteAnswered(s)
    /\ h[s].code = h[r].code /\ k # h[r].code
    /\ files[cacheFilePath(k)].exists /\ files[cacheFilePath(k)].data # <<>>

\* the upstream fetches request q has issued and seen complete
Fetches(q) == Cardinality({i \in 1..Len(q.log) : q.log[i] \in {"fetch:ok", "fetch:null"}})

\* C19: an upstream fetch is issued only by a GET of a valid key whose cache
\* read reported the entry absent, and a request issues at most one fetch:
\* PUT, DELETE, other methods and rejected requests never fetch.
C19_FetchOnlyOnMiss ==
  \A r \in Reqs :
    LET q == h[r]
        issued == Fetches(q) + (IF q.pc = "fetch" THEN 1 ELSE 0)
    IN  /\ issued <= 1
        /\ issued = 1 => /\ q.method = "GET"
                          /\ ThreeDigits(q.code)
                          /\ q.log[1] = "read:ENOENT"
                          /\ ~Has(q, "read:error") /\ ~Has(q, "read:ok")

\* a GET that missed has fetched once and been answered, and a DELETE of the
\* same absent key has been answered 404 without a fetch
C19_Witness ==
  \E r, s \in Reqs :
    /\ MissAnswered(r) /\ Fetches(h[r]) = 1
    /\ Done(s) /\ h[s].method = "DELETE" /\ h[s].code = h[r].code
    /\ h[s].status = 404 /\ Fetches(h[s]) = 0

\* C20: every request is answered exactly once: no request has more than one
\* response written, a request whose handling has ended has exactly one, and,
\* every pending I/O operation completing, a request that has arrived reaches
\* the end of its handling, whatever the other requests do.
C20_AnsweredOnce ==
  \A r \in Reqs :
    /\ [](h[r].sent <= 1 /\ (Done(r) <=> h[r].sent = 1))
    /\ (h[r].pc # "idle") ~> (Done(r) /\ h[r].sent = 1)

\* a PUT whose body stream broke was answered once, by the outer catch, and a
\* GET that missed and fetched was answered once
C20_Witness ==
  \E r, s \in Reqs :
    /\ Done(r) /\ h[r].method = "PUT" /\ Has(h[r], "body:error")
    /\ h[r].status = 500 /\ h[r].sent = 1
    /\ MissAnswered(s) /\ Has(h[s], "write:ok") /\ h[s].sent = 1

====
